---- MODULE Spec2Model ----
(***************************************************************************)
(* Library: a terminal application that keeps book records in books.json.  *)
(* The model covers the command framework (command.py), the application     *)
(* and its read-dispatch loop (app.py) and the bookshelf store              *)
(* (bookshelf.py, book.py).                                                 *)
(*                                                                          *)
(* A token is a sequence of one-character strings, so that parsing is       *)
(* computed character by character as Python's int() and float() do.        *)
(*                                                                          *)
(* Environment: the terminal may deliver end-of-file on any read and the    *)
(* user may interrupt the process at any control point; opening and         *)
(* writing books.json is assumed to succeed.                                *)
(***************************************************************************)
EXTENDS Integers, Sequences, FiniteSets, TLC

(***************************************************************************)
(* Bounds of the model.                                                     *)
(***************************************************************************)
\* longest argument list handed to invoke_command by a class of commands
MaxArgs == 3
\* longest argument list the user of the application types after a command name
MaxAppArgs == 2

(***************************************************************************)
(* Characters, and Python's numeric parsing.                                *)
(***************************************************************************)
Digits == {"0", "1", "2", "3", "4", "5", "6", "7", "8", "9"}

DigitVal(c) ==
    CASE c = "0" -> 0 [] c = "1" -> 1 [] c = "2" -> 2 [] c = "3" -> 3
      [] c = "4" -> 4 [] c = "5" -> 5 [] c = "6" -> 6 [] c = "7" -> 7
      [] c = "8" -> 8 [] c = "9" -> 9

\* str.lower on the letters the float parser looks at
Lower(c) ==
    CASE c = "I" -> "i" [] c = "N" -> "n" [] c = "F" -> "f" [] c = "A" -> "a"
      [] c = "T" -> "t" [] c = "Y" -> "y" [] c = "E" -> "e" [] OTHER -> c

LowerAll(s) == [i \in 1..Len(s) |-> Lower(s[i])]

\* a run of digits in which single underscores may separate digits
DigitPartOk(s) ==
    /\ Len(s) > 0
    /\ \A i \in 1..Len(s) : s[i] \in Digits \cup {"_"}
    /\ s[1] # "_"
    /\ s[Len(s)] # "_"
    /\ \A i \in 1..(Len(s) - 1) : ~(s[i] = "_" /\ s[i + 1] = "_")

RECURSIVE DigitsVal(_, _)
DigitsVal(s, acc) ==
    IF s = <<>> THEN acc
    ELSE DigitsVal(Tail(s), IF Head(s) = "_" THEN acc ELSE 10 * acc + DigitVal(Head(s)))

RECURSIVE CountDigits(_)
CountDigits(s) ==
    IF s = <<>> THEN 0
    ELSE (IF Head(s) = "_" THEN 0 ELSE 1) + CountDigits(Tail(s))

HasSign(s) == Len(s) > 0 /\ s[1] \in {"+", "-"}
Unsigned(s) == IF HasSign(s) THEN Tail(s) ELSE s
SignOf(s) == IF Len(s) > 0 /\ s[1] = "-" THEN -1 ELSE 1

\* first position of a character of cs in s, 0 when there is none
IndexOf(s, cs) ==
    IF \E i \in 1..Len(s) : s[i] \in cs
    THEN CHOOSE i \in 1..Len(s) : s[i] \in cs /\ \A j \in 1..(i - 1) : s[j] \notin cs
    ELSE 0

\* int(given): [ok |-> parsed, v |-> value]
IntParse(s) ==
    IF DigitPartOk(Unsigned(s))
    THEN [ok |-> TRUE, v |-> SignOf(s) * DigitsVal(Unsigned(s), 0)]
    ELSE [ok |-> FALSE, v |-> 0]

RECURSIVE Normalise(_, _)
\* the decimal m * 10^e with no trailing zero in m
Normalise(m, e) ==
    IF m = 0 THEN <<0, 0>>
    ELSE IF m % 10 = 0 THEN Normalise(m \div 10, e + 1)
    ELSE <<m, e>>

\* float(given): [ok, sp, v]; sp is "fin", "inf" or "nan"; v = <<m, e>> is the
\* value m * 10^e of a finite float
FloatParse(s) ==
    LET u == Unsigned(s)
        low == LowerAll(u)
        ePos == IndexOf(u, {"e", "E"})
        mant == IF ePos = 0 THEN u ELSE SubSeq(u, 1, ePos - 1)
        expo == IF ePos = 0 THEN <<>> ELSE SubSeq(u, ePos + 1, Len(u))
        dot == IndexOf(mant, {"."})
        ip == IF dot = 0 THEN mant ELSE SubSeq(mant, 1, dot - 1)
        fp == IF dot = 0 THEN <<>> ELSE SubSeq(mant, dot + 1, Len(mant))
        mantOk == \/ DigitPartOk(ip) /\ (fp = <<>> \/ DigitPartOk(fp))
                  \/ ip = <<>> /\ dot # 0 /\ DigitPartOk(fp)
        expOk == ePos = 0 \/ DigitPartOk(Unsigned(expo))
        ev == IF ePos = 0 THEN 0 ELSE SignOf(expo) * DigitsVal(Unsigned(expo), 0)
        n == Normalise(DigitsVal(ip \o fp, 0), ev - CountDigits(fp))
    IN  IF low \in {<<"i", "n", "f">>, <<"i", "n", "f", "i", "n", "i", "t", "y">>}
        THEN [ok |-> TRUE, sp |-> "inf", v |-> <<SignOf(s), 0>>]
        ELSE IF low = <<"n", "a", "n">>
        THEN [ok |-> TRUE, sp |-> "nan", v |-> <<0, 0>>]
        ELSE IF mantOk /\ expOk
        THEN [ok |-> TRUE, sp |-> "fin", v |-> <<SignOf(s) * n[1], n[2]>>]
        ELSE [ok |-> FALSE, sp |-> "fin", v |-> <<0, 0>>]

TRUE_EXPRESSIONS ==
    {<<"t", "r", "u", "e">>, <<"y", "e", "s">>, <<"1">>, <<"t">>, <<"y">>}

FALSE_EXPRESSIONS ==
    {<<"f", "a", "l", "s", "e">>, <<"n", "o">>, <<"0">>, <<"f">>, <<"n">>}

OPTIONALS == {"Optional[str]", "Optional[int]", "Optional[float]", "Optional[bool]"}

\* get_args(annotation)[0] of an Optional annotation
OptionalArg(a) ==
    CASE a = "Optional[str]" -> "str" [] a = "Optional[int]" -> "int"
      [] a = "Optional[float]" -> "float" [] a = "Optional[bool]" -> "bool"

\* _type of a non-variadic parameter
TypeOf(p) == IF p.annotation \notin OPTIONALS THEN p.annotation ELSE OptionalArg(p.annotation)

\* _type(given) with the boolean literals replaced first:
\* [ok |-> converted, val |-> the typed argument]
\* variant of Coerce that converts an int parameter with float(): a token such
\* as 1.5 is then accepted for an int parameter
Coerce_IntByFloat(type, given) ==
    CASE type = "str" -> [ok |-> TRUE, val |-> [t |-> "str", v |-> given]]
      [] type = "int" ->
            [ok |-> FloatParse(given).ok, val |-> [t |-> "int", v |-> IntParse(given).v]]
      [] type = "float" ->
            [ok |-> FloatParse(given).ok,
             val |-> [t |-> "float", v |-> <<FloatParse(given).sp>> \o FloatParse(given).v]]
      [] type = "bool" ->
            [ok |-> TRUE,
             val |-> [t |-> "bool",
                      v |-> IF given \in TRUE_EXPRESSIONS THEN TRUE
                            ELSE IF given \in FALSE_EXPRESSIONS THEN FALSE
                            ELSE given # <<>>]]

Coerce(type, given) ==
    CASE type = "str" -> [ok |-> TRUE, val |-> [t |-> "str", v |-> given]]
      [] type = "int" ->
            [ok |-> IntParse(given).ok, val |-> [t |-> "int", v |-> IntParse(given).v]]
      [] type = "float" ->
            [ok |-> FloatParse(given).ok,
             val |-> [t |-> "float", v |-> <<FloatParse(given).sp>> \o FloatParse(given).v]]
      [] type = "bool" ->
            [ok |-> TRUE,
             val |-> [t |-> "bool",
                      v |-> IF given \in TRUE_EXPRESSIONS THEN TRUE
                            ELSE IF given \in FALSE_EXPRESSIONS THEN FALSE
                            ELSE given # <<>>]]

(***************************************************************************)
(* Operations, their parameters, and Command construction (command.py).    *)
(***************************************************************************)
\* an inspect.Parameter: kind is one of POSITIONAL_ONLY, POSITIONAL_OR_KEYWORD,
\* VAR_POSITIONAL, KEYWORD_ONLY, VAR_KEYWORD; annotation "empty" is no annotation;
\* default tells whether the parameter has a default value
Param(name, kind, annotation, default) ==
    [name |-> name, kind |-> kind, annotation |-> annotation, default |-> default]

SelfParam == Param("self", "POSITIONAL_OR_KEYWORD", "empty", FALSE)

\* an attribute of a class body. deco: it is decorated with @command(name, aliases);
\* wrap is "function", "classmethod" or "staticmethod"; name "" is name=None and
\* aliases <<>> is aliases=None; body names what the operation does when called
Attr(attr, deco, wrap, params, name, aliases, body) ==
    [attr |-> attr, deco |-> deco, wrap |-> wrap, params |-> params,
     name |-> name, aliases |-> aliases, body |-> body]

valid_types == {"str", "int", "float", "bool"} \cup OPTIONALS

\* hasattr(annotation, '__name__'): classes have it, and so has typing.Optional[X]
\* on the Pythons that import app.py (3.10 and later; observed on 3.11)
HasName(annotation) == annotation \in valid_types \cup {"empty", "list"}

RECURSIVE ValidateParams_KeywordOnlySkipped(_)
\* variant of the loop of _validate_func that skips a keyword-only parameter as
\* it skips a variadic one
ValidateParams_KeywordOnlySkipped(params) ==
    IF params = <<>> THEN [ok |-> TRUE, why |-> "", param |-> ""]
    ELSE LET param == Head(params)
         IN  IF param.name = "self" \/ param.kind \in {"VAR_POSITIONAL", "KEYWORD_ONLY"}
             THEN ValidateParams_KeywordOnlySkipped(Tail(params))
             ELSE IF param.kind = "VAR_KEYWORD"
             THEN [ok |-> FALSE, why |-> "keyword arguments", param |-> param.name]
             ELSE IF param.annotation \notin valid_types \/ ~HasName(param.annotation)
             THEN [ok |-> FALSE, why |-> "annotation", param |-> param.name]
             ELSE ValidateParams_KeywordOnlySkipped(Tail(params))

RECURSIVE ValidateParams(_)
\* the loop of _validate_func: the first offending parameter raises
ValidateParams(params) ==
    IF params = <<>> THEN [ok |-> TRUE, why |-> "", param |-> ""]
    ELSE LET param == Head(params)
         IN  IF param.name = "self" \/ param.kind = "VAR_POSITIONAL"
             THEN ValidateParams(Tail(params))
             ELSE IF param.kind = "VAR_KEYWORD" \/ param.kind = "KEYWORD_ONLY"
             THEN [ok |-> FALSE, why |-> "keyword arguments", param |-> param.name]
             ELSE IF param.annotation \notin valid_types \/ ~HasName(param.annotation)
             THEN [ok |-> FALSE, why |-> "annotation", param |-> param.name]
             ELSE ValidateParams(Tail(params))

\* Command._validate_func: ok, or the TypeError it raises
validate_func(func) ==
    IF func.wrap = "classmethod"
    THEN [ok |-> FALSE, why |-> "classmethod", param |-> ""]
    ELSE IF func.wrap = "staticmethod"
    THEN [ok |-> FALSE, why |-> "staticmethod", param |-> ""]
    ELSE ValidateParams(func.params)

check_param(param) ==
    /\ param.kind \in {"POSITIONAL_OR_KEYWORD", "POSITIONAL_ONLY", "VAR_POSITIONAL"}
    /\ param.name # "self"

get_valid_arguments(func) == SelectSeq(func.params, check_param)

\* Command.__init__ through the command decorator, for a func that validates
Command(func) ==
    [func |-> func.attr,
     name |-> IF func.name # "" THEN func.name ELSE func.attr,
     aliases |-> func.aliases,
     parameters |-> get_valid_arguments(func),
     body |-> func.body]

invokable_names(cmd) ==
    IF cmd.aliases # <<>> THEN <<cmd.name>> \o cmd.aliases ELSE <<cmd.name>>

get_required_count(cmd) ==
    Cardinality({i \in DOMAIN cmd.parameters : cmd.parameters[i].annotation \notin OPTIONALS})

\* annotation.__name__
TypeName(annotation) == IF annotation = "empty" THEN "_empty" ELSE annotation

format_param(param) ==
    <<param.name,
      IF param.annotation \notin OPTIONALS THEN TypeName(param.annotation)
      ELSE param.annotation>>

\* a message written to the output sink
Msg(ch, kind, text) == [ch |-> ch, kind |-> kind, text |-> text]

print_usage(cmd) ==
    Msg("error", "Usage",
        <<invokable_names(cmd),
          [i \in DOMAIN cmd.parameters |-> format_param(cmd.parameters[i])]>>)

print_expected(name, expected, given) ==
    Msg("error", "Expected", <<name, TypeName(expected), given>>)

(***************************************************************************)
(* The class body and SupportsCommandsType.__new__.                         *)
(***************************************************************************)
NoCommand ==
    [func |-> "", name |-> "", aliases |-> <<>>, parameters |-> <<>>, body |-> "none"]

\* attrs[key] = value of a dict kept in insertion order
DictPut(attrs, key, value) ==
    IF \E i \in DOMAIN attrs : attrs[i].key = key
    THEN [i \in DOMAIN attrs |-> IF attrs[i].key = key THEN [key |-> key, value |-> value]
                                 ELSE attrs[i]]
    ELSE Append(attrs, [key |-> key, value |-> value])

RECURSIVE ClassBody(_, _)
\* executing the class body statement by statement: each @command builds a
\* Command, and the first that raises ends the execution
ClassBody(body, attrs) ==
    IF body = <<>> THEN [ok |-> TRUE, attrs |-> attrs, error |-> [ok |-> TRUE, why |-> "", param |-> ""]]
    ELSE LET a == Head(body)
         IN  IF a.deco /\ ~validate_func(a).ok
             THEN [ok |-> FALSE, attrs |-> <<>>, error |-> validate_func(a)]
             ELSE ClassBody(Tail(body),
                            DictPut(attrs, a.attr,
                                    IF a.deco THEN [isCommand |-> TRUE, cmd |-> Command(a)]
                                    ELSE [isCommand |-> FALSE, cmd |-> NoCommand]))

IsCommandValue(entry) == entry.value.isCommand

\* SupportsCommandsType.__new__: the Command values of attrs, in order
CommandsOf(attrs) ==
    LET kept == SelectSeq(attrs, IsCommandValue)
    IN  [i \in DOMAIN kept |-> kept[i].value.cmd]

(***************************************************************************)
(* Command.invoke: matching tokens to parameters.                           *)
(***************************************************************************)
Outcome(kind, ready, param, type, given) ==
    [kind |-> kind, ready |-> ready, param |-> param, type |-> type, given |-> given]

RECURSIVE BindFrom_OneVariadic(_, _, _, _)
\* variant of the loop of invoke that keeps only the first token of a variadic
\* parameter
BindFrom_OneVariadic(cmd, params, i, ready) ==
    IF i > Len(params) \/ cmd.parameters = <<>>
    THEN Outcome("bound", ready, "", "", <<>>)
    ELSE LET over == i > Len(cmd.parameters)
             p == IF over THEN cmd.parameters[Len(cmd.parameters)] ELSE cmd.parameters[i]
             given == params[i]
         IN  IF over
             THEN Outcome("bound", ready, "", "", <<>>)
             ELSE IF p.kind = "VAR_POSITIONAL"
             THEN BindFrom_OneVariadic(cmd, params, i + 1, Append(ready, [t |-> "str", v |-> given]))
             ELSE IF Coerce(TypeOf(p), given).ok
             THEN BindFrom_OneVariadic(cmd, params, i + 1, Append(ready, Coerce(TypeOf(p), given).val))
             ELSE Outcome("expected", <<>>, p.name, TypeOf(p), given)

RECURSIVE BindFrom_ExcessToLast(_, _, _, _)
\* variant of the loop of invoke that hands every token beyond the parameters to
\* the last parameter, variadic or not
BindFrom_ExcessToLast(cmd, params, i, ready) ==
    IF i > Len(params) \/ cmd.parameters = <<>>
    THEN Outcome("bound", ready, "", "", <<>>)
    ELSE LET over == i > Len(cmd.parameters)
             p == IF over THEN cmd.parameters[Len(cmd.parameters)] ELSE cmd.parameters[i]
             given == params[i]
         IN  IF p.kind = "VAR_POSITIONAL"
             THEN BindFrom_ExcessToLast(cmd, params, i + 1, Append(ready, [t |-> "str", v |-> given]))
             ELSE IF Coerce(TypeOf(p), given).ok
             THEN BindFrom_ExcessToLast(cmd, params, i + 1, Append(ready, Coerce(TypeOf(p), given).val))
             ELSE Outcome("expected", <<>>, p.name, TypeOf(p), given)

RECURSIVE BindFrom(_, _, _, _)
\* the for loop of invoke from the i-th token on; ready holds the arguments so far
BindFrom(cmd, params, i, ready) ==
    IF i > Len(params) \/ cmd.parameters = <<>>
    THEN Outcome("bound", ready, "", "", <<>>)
    ELSE LET over == i > Len(cmd.parameters)
             p == IF over THEN cmd.parameters[Len(cmd.parameters)] ELSE cmd.parameters[i]
             given == params[i]
         IN  IF over /\ p.kind # "VAR_POSITIONAL"
             THEN Outcome("bound", ready, "", "", <<>>)
             ELSE IF p.kind = "VAR_POSITIONAL"
             THEN BindFrom(cmd, params, i + 1, Append(ready, [t |-> "str", v |-> given]))
             ELSE IF Coerce(TypeOf(p), given).ok
             THEN BindFrom(cmd, params, i + 1, Append(ready, Coerce(TypeOf(p), given).val))
             ELSE Outcome("expected", <<>>, p.name, TypeOf(p), given)

\* invoke up to the call of the bound operation: "expected" (a token did not
\* convert), "usage" (too few arguments) or "call" with the arguments
Bind(cmd, params) ==
    LET b == BindFrom(cmd, params, 1, <<>>)
    IN  IF b.kind = "expected" THEN b
        ELSE IF Len(b.ready) < get_required_count(cmd)
        THEN Outcome("usage", <<>>, "", "", <<>>)
        ELSE Outcome("call", b.ready, "", "", <<>>)

\* self.func(cls, *ready) binds: every positional parameter without a default
\* gets an argument (otherwise Python raises TypeError inside the try)
CallBinds(cmd, ready) ==
    Len(ready) >= Cardinality({i \in DOMAIN cmd.parameters :
                                  /\ cmd.parameters[i].kind # "VAR_POSITIONAL"
                                  /\ ~cmd.parameters[i].default})

\* variant of the except clause of invoke that catches TypeError only
IsException_OnlyTypeError(cls) == cls = "TypeError"

\* the classes "except Exception" catches: KeyboardInterrupt is a BaseException
IsException(cls) == cls \in {"EOFError", "TypeError", "RuntimeError"}

\* variant of the scan of invoke_command that keeps the last command that name
\* invokes
FindCommand_LastMatch(commands, name, i) ==
    LET hits == {j \in i..Len(commands) :
                    \E k \in DOMAIN invokable_names(commands[j]) :
                        invokable_names(commands[j])[k] = name}
    IN  IF hits = {} THEN 0 ELSE CHOOSE j \in hits : \A h \in hits : h <= j

\* variant of the scan of invoke_command that falls back to the first command
\* when name invokes none
FindCommand_FallsBack(commands, name, i) ==
    LET hits == {j \in i..Len(commands) :
                    \E k \in DOMAIN invokable_names(commands[j]) :
                        invokable_names(commands[j])[k] = name}
    IN  IF hits = {} THEN i ELSE CHOOSE j \in hits : \A h \in hits : j <= h

RECURSIVE FindCommand(_, _, _)
\* the scan of invoke_command from the i-th command on: the index of the first
\* command that name invokes, 0 when there is none
FindCommand(commands, name, i) ==
    IF i > Len(commands) THEN 0
    ELSE IF \E k \in DOMAIN invokable_names(commands[i]) : invokable_names(commands[i])[k] = name
    THEN i
    ELSE FindCommand(commands, name, i + 1)

(***************************************************************************)
(* Books and the data file (book.py, bookshelf.py).                         *)
(***************************************************************************)
\* Book(title, author, year) with status None: BookStatus.in_stock
Book(title, author, year, id) ==
    [title |-> title, author |-> author, year |-> year, status |-> "in_stock", id |-> id]

\* BookStatus(...).value
StatusValue(status) == IF status = "in_stock" THEN 1 ELSE 0

str_status(book) ==
    IF book.status = "in_stock" THEN "In stock"
    ELSE IF book.status = "handed_over" THEN "Handed over"
    ELSE "Unknown status"

to_dict(book) ==
    [title |-> book.title, author |-> book.author, year |-> book.year,
     status |-> StatusValue(book.status), id |-> book.id]

EmptyDict == [i \in {} |-> 0]

\* self.books[key] = value
Put(d, key, value) == [i \in DOMAIN d \cup {key} |-> IF i = key THEN value ELSE d[i]]

\* variant of books.pop that empties the dict
Pop_Clears(d, key) == [i \in {} |-> d[i]]

\* self.books.pop(key)
Pop(d, key) == [i \in DOMAIN d \ {key} |-> d[i]]

\* the data file: absent, empty (opened for writing, nothing written yet) or
\* holding the JSON object data
NoFile == [kind |-> "absent", data |-> EmptyDict]
EmptyFile == [kind |-> "empty", data |-> EmptyDict]

\* json.dumps(self.books, default=self._json_default) as written to the file
Dump(bs) == [kind |-> "json", data |-> [i \in DOMAIN bs |-> to_dict(bs[i])]]

RECURSIVE Join(_)
\* ' '.join(title)
Join(tokens) ==
    IF tokens = <<>> THEN <<>>
    ELSE IF Len(tokens) = 1 THEN tokens[1]
    ELSE tokens[1] \o <<" ">> \o Join(Tail(tokens))

\* check_year of App.add
check_year(y) == IntParse(y).ok /\ ~(Len(y) > 4 \/ IntParse(y).v <= 0)

(***************************************************************************)
(* Inputs: what the user types, and the class bodies that are registered.   *)
(***************************************************************************)
ID1 == <<"0", "7">>
ID2 == <<"1", "a">>
ID3 == <<"f", "f">>
T_stock == <<"s", "t", "o", "c", "k">>
T_out == <<"o", "u", "t">>
T_Dune == <<"D", "u", "n", "e">>
T_Herbert == <<"H", "e", "r", "b", "e", "r", "t">>
T_cancel == <<"c", "a", "n", "c", "e", "l">>
T_1965 == <<"1", "9", "6", "5">>
T_float == <<"1", ".", "5">>
T_yes == <<"y", "e", "s">>

\* the values os.urandom(6).hex() takes in the model
Ids == {ID1, ID2}

\* all sequences over S of length at most n
SeqsUpTo(S, n) == UNION {[1..k -> S] : k \in 0..n}

AppTokens == {ID1, ID2, T_stock, T_out}
TitleArgs == {<<>>, <<T_Dune>>, <<T_Dune, T_out>>}
AuthorInputs == {<<>>, <<"c">>, T_cancel, T_Herbert}
YearInputs == {<<>>, <<"c">>, T_cancel, T_1965, <<"0">>, <<"1", "2", "3", "4", "5">>, T_stock}
LibTokens == {ID1, ID2, T_float, T_yes}

\* the data file a session may find: none, or one written by an earlier session
OldBook ==
    [title |-> T_Dune, author |-> T_Herbert, year |-> 1965, status |-> "handed_over",
     id |-> ID3]
InitialFiles == {NoFile, Dump(Put(EmptyDict, ID3, OldBook))}

Plain(attr, wrap) == Attr(attr, FALSE, wrap, <<SelfParam>>, "", <<>>, "none")
Str(name) == Param(name, "POSITIONAL_OR_KEYWORD", "str", FALSE)

\* the body of class App
AppBody ==
    << Plain("__init__", "function"),
       Attr("help", TRUE, "function", <<SelfParam>>, "", <<"h">>, "help"),
       Attr("add", TRUE, "function",
            <<SelfParam, Param("title", "VAR_POSITIONAL", "str", FALSE)>>,
            "", <<"+", "create">>, "add"),
       Attr("books", TRUE, "function", <<SelfParam>>, "", <<"list", "ls", "all">>, "books"),
       Attr("status", TRUE, "function", <<SelfParam, Str("book_id"), Str("status")>>,
            "", <<>>, "status"),
       Attr("delete", TRUE, "function", <<SelfParam, Str("book_id")>>,
            "", <<"del", "d">>, "delete"),
       Plain("preload", "staticmethod"),
       Plain("clear_screen", "staticmethod"),
       Plain("input_flow", "function"),
       Plain("invoke_command", "function"),
       Plain("tick", "function"),
       Plain("run", "function") >>

(***************************************************************************)
(* Other classes of commands built with the same metaclass: every signature *)
(* Python accepts with up to two parameters after self, and some written    *)
(* out.                                                                     *)
(***************************************************************************)
Kinds == {"POSITIONAL_OR_KEYWORD", "VAR_POSITIONAL", "KEYWORD_ONLY", "VAR_KEYWORD"}
Annotations == {"str", "int", "Optional[float]", "empty", "list"}

KindRank(k) ==
    CASE k = "POSITIONAL_ONLY" -> 0 [] k = "POSITIONAL_OR_KEYWORD" -> 1
      [] k = "VAR_POSITIONAL" -> 2 [] k = "KEYWORD_ONLY" -> 3 [] k = "VAR_KEYWORD" -> 4

\* the order Python's grammar imposes on the parameters of a def
PythonOrder(k1, k2) ==
    /\ KindRank(k1) <= KindRank(k2)
    /\ ~(k1 = k2 /\ k1 \in {"VAR_POSITIONAL", "VAR_KEYWORD"})

Signatures ==
    {<<>>}
    \cup {<<Param("a", k, t, FALSE)>> : k \in Kinds, t \in Annotations}
    \cup {<<Param("a", k[1], t[1], FALSE), Param("b", k[2], t[2], FALSE)>> :
            k \in {x \in Kinds \X Kinds : PythonOrder(x[1], x[2])},
            t \in Annotations \X Annotations}

Op(attr, params, name, aliases) ==
    Attr(attr, TRUE, "function", <<SelfParam>> \o params, name, aliases, "probe")

GenBodies ==
    {<<Op("ping", <<>>, "", <<>>), Op("gen", sig, "", <<"g">>), Op("pong", <<>>, "", <<"p">>)>> :
        sig \in Signatures}

RateBody ==
    << Op("rate",
          <<Param("score", "POSITIONAL_OR_KEYWORD", "int", FALSE),
            Param("weight", "POSITIONAL_OR_KEYWORD", "float", FALSE),
            Param("note", "VAR_POSITIONAL", "str", FALSE)>>,
          "", <<"r">>),
       Op("flag",
          <<Param("on", "POSITIONAL_ONLY", "bool", FALSE),
            Param("label", "POSITIONAL_OR_KEYWORD", "Optional[str]", TRUE)>>,
          "", <<>>) >>

\* commands that share invokable names
CollisionBody ==
    << Op("first", <<Str("a")>>, "x", <<"go">>),
       Op("second", <<>>, "", <<"x", "go">>),
       Op("third", <<Str("a"), Str("b")>>, "go", <<"third">>) >>

\* a method defined twice in the class body
DuplicateBody ==
    << Op("dup", <<Str("a")>>, "", <<"one">>),
       Plain("helper", "function"),
       Op("dup", <<>>, "", <<"two">>),
       Op("last", <<>>, "", <<>>) >>

ClassMethodBody ==
    << Op("ping", <<>>, "", <<>>),
       Attr("make", TRUE, "classmethod", <<Str("a")>>, "", <<>>, "probe") >>

StaticMethodBody ==
    << Attr("make", TRUE, "staticmethod", <<Str("a")>>, "", <<>>, "probe"),
       Op("ping", <<>>, "", <<>>) >>

LibBodies ==
    GenBodies \cup {RateBody, CollisionBody, DuplicateBody, ClassMethodBody, StaticMethodBody}

(***************************************************************************)
(* State.                                                                   *)
(***************************************************************************)
VARIABLES
    pc,           \* where the process is: "define" (the class is being built),
                  \* "prompt" (tick reads a line), "author", "year", "year_retry"
                  \* (the reads of input_flow), "save_open", "save_write" (before
                  \* and after open(file, 'w') of save_books), "pause" (Press
                  \* Enter to continue), "closed", "crashed", "aborted"
    body,         \* the class body being executed
    COMMANDS,     \* the COMMANDS list of the class
    books,        \* Bookshelf.books: id -> Book
    file,         \* the data file books.json
    out,          \* the messages on the screen since the last clear_screen
    calls,        \* the operations called by the current dispatch, with arguments
    name,         \* the command name of the current dispatch
    given,        \* the tokens of the current dispatch
    sel,          \* the index of the command it selected, 0 for none
    cur,          \* the running mutating operation and its local variables
    exc,          \* the exception raised during the current tick, if any
    booksBefore,  \* books when the current dispatch began
    fileBefore,   \* the data file when the current dispatch began
    prev          \* the previous command, when it was a completed status command

vars ==
    <<pc, body, COMMANDS, books, file, out, calls, name, given, sel, cur, exc,
      booksBefore, fileBefore, prev>>

NoCur ==
    [op |-> "none", title |-> <<>>, author |-> <<>>, year |-> <<>>, id |-> <<>>,
     st |-> <<>>, ok |-> FALSE]
NoExc == [cls |-> "none", msg |-> "", site |-> "none", by |-> "none"]
NoPrev == [id |-> <<>>, st |-> <<>>]

Banner == Msg("info", "This is Library app.", <<>>)
AuthorPrompt(title) == Msg("info", "enter the name of the book author", <<title>>)
YearPrompt(title, author) == Msg("info", "when it was published", <<title, author>>)

\* the state in which tick waits for a line: the screen was cleared and the
\* banner written
AtPrompt ==
    /\ pc' = "prompt"
    /\ out' = <<Banner>>
    /\ calls' = <<>>
    /\ name' = ""
    /\ given' = <<>>
    /\ sel' = 0
    /\ cur' = NoCur
    /\ exc' = NoExc
    /\ booksBefore' = books
    /\ fileBefore' = file

InitWith(bodies, files) ==
    /\ pc = "define"
    /\ body \in bodies
    /\ COMMANDS = <<>>
    /\ books = EmptyDict
    /\ file \in files
    /\ out = <<>>
    /\ calls = <<>>
    /\ name = ""
    /\ given = <<>>
    /\ sel = 0
    /\ cur = NoCur
    /\ exc = NoExc
    /\ booksBefore = EmptyDict
    /\ fileBefore = file
    /\ prev = NoPrev

Init == InitWith({AppBody}, InitialFiles)

(***************************************************************************)
(* Class creation, App() and the first tick of run.                         *)
(***************************************************************************)
Register ==
    /\ pc = "define"
    /\ LET r == ClassBody(body, <<>>)
       IN  IF r.ok
           THEN /\ COMMANDS' = CommandsOf(r.attrs)
                /\ AtPrompt
                /\ UNCHANGED <<body, books, file, prev>>
           ELSE /\ pc' = "aborted"
                /\ exc' = [cls |-> "TypeError", msg |-> r.error.why, site |-> "define",
                           by |-> "none"]
                /\ UNCHANGED <<body, COMMANDS, books, file, out, calls, name, given, sel, cur,
                               booksBefore, fileBefore, prev>>

(***************************************************************************)
(* Exceptions: the try of Command.invoke and the try of App.run.            *)
(***************************************************************************)
\* who handles an exception raised at site: "invoke" (except Exception of
\* Command.invoke, for what is raised inside its try), "run" (except
\* KeyboardInterrupt of App.run) or "none" (the process dies with a traceback)
Handler(site, cls) ==
    IF site \in {"body", "call"} /\ IsException(cls) THEN "invoke"
    ELSE IF cls = "KeyboardInterrupt" THEN "run"
    ELSE "none"

\* screen is what the screen holds when the exception is raised
Raise(screen, site, cls, msg) ==
    LET by == Handler(site, cls)
    IN  /\ exc' = [cls |-> cls, msg |-> msg, site |-> site, by |-> by]
        /\ pc' = IF by = "invoke" THEN "pause" ELSE IF by = "run" THEN "closed" ELSE "crashed"
        /\ out' = IF by = "invoke" THEN Append(screen, Msg("error", "exception", msg))
                  ELSE IF by = "run"
                  THEN Append(screen, Msg("warning", "Received signal to close the app.", <<>>))
                  ELSE screen

\* the control points inside the body of an operation
InBody == {"author", "year", "year_retry", "save_open", "save_write"}
\* the control points at which the process waits for the terminal
Reading == {"prompt", "pause", "author", "year", "year_retry"}

SiteOf(p) == IF p \in InBody THEN "body" ELSE "tick"

\* the user interrupts the process
Interrupt ==
    /\ pc \in InBody \cup {"prompt", "pause"}
    /\ Raise(out, SiteOf(pc), "KeyboardInterrupt", "")
    /\ UNCHANGED <<body, COMMANDS, books, file, calls, name, given, sel, cur, booksBefore,
                   fileBefore, prev>>

\* input() finds the terminal at end of file
EndOfInput ==
    /\ pc \in Reading
    /\ Raise(out, SiteOf(pc), "EOFError", "EOF when reading a line")
    /\ UNCHANGED <<body, COMMANDS, books, file, calls, name, given, sel, cur, booksBefore,
                   fileBefore, prev>>

(***************************************************************************)
(* The operations of App (app.py) and a generic operation.                  *)
(***************************************************************************)
\* the operation reports and returns at once
Done(msgs) ==
    /\ pc' = "pause"
    /\ out' = msgs
    /\ cur' = NoCur
    /\ exc' = NoExc
    /\ UNCHANGED <<books, file>>

\* the operation changed self.bookshelf.books to bs and save_books begins
Saving(bs, c) ==
    /\ pc' = "save_open"
    /\ books' = bs
    /\ cur' = c
    /\ out' = <<>>
    /\ exc' = NoExc
    /\ UNCHANGED file

ParamList(cmd) == [j \in DOMAIN cmd.parameters |-> format_param(cmd.parameters[j])]

App_help(ready) ==
    Done(<<Msg("info", "Here is a list of all available commands:", <<>>),
           Msg("info", "commands",
               [i \in DOMAIN COMMANDS |->
                   <<invokable_names(COMMANDS[i]), ParamList(COMMANDS[i])>>])>>)

\* the entry of one book in the listing
Entry(book) == <<book.title, book.author, book.year, book.id, str_status(book)>>

App_books(ready) ==
    Done(<<Msg("info", "Here are list of all stored books:", <<>>),
           Msg("info", "books", {Entry(books[i]) : i \in DOMAIN books})>>)

\* add up to its first read: input_flow cleared the screen and asks for the author
App_add(ready) ==
    /\ pc' = "author"
    /\ cur' = [NoCur EXCEPT !.op = "add", !.title = Join([i \in DOMAIN ready |-> ready[i].v])]
    /\ out' = <<AuthorPrompt(Join([i \in DOMAIN ready |-> ready[i].v]))>>
    /\ exc' = NoExc
    /\ UNCHANGED <<books, file>>

\* variant of App.status that refuses a status the book already has
App_status_RefusesSame(ready) ==
    LET book_id == ready[1].v
        st == ready[2].v
    IN  IF book_id \notin DOMAIN books
        THEN Done(<<Msg("error", "Book with ID doesn't exist!", <<book_id>>)>>)
        ELSE IF st \notin {T_stock, T_out}
        THEN Done(<<Msg("error", "Status parameter must be one of stock and out!", <<>>)>>)
        ELSE IF books[book_id].status = (IF st = T_stock THEN "in_stock" ELSE "handed_over")
        THEN Done(<<Msg("error", "Book already has this status!", <<book_id>>)>>)
        ELSE Saving(Put(books, book_id,
                        [books[book_id] EXCEPT
                            !.status = IF st = T_stock THEN "in_stock" ELSE "handed_over"]),
                    [NoCur EXCEPT !.op = "status", !.id = book_id, !.st = st,
                                  !.title = books[book_id].title])

App_status(ready) ==
    LET book_id == ready[1].v
        st == ready[2].v
    IN  IF book_id \notin DOMAIN books
        THEN Done(<<Msg("error", "Book with ID doesn't exist!", <<book_id>>)>>)
        ELSE IF st \notin {T_stock, T_out}
        THEN Done(<<Msg("error", "Status parameter must be one of stock and out!", <<>>)>>)
        ELSE Saving(Put(books, book_id,
                        [books[book_id] EXCEPT
                            !.status = IF st = T_stock THEN "in_stock" ELSE "handed_over"]),
                    [NoCur EXCEPT !.op = "status", !.id = book_id, !.st = st,
                                  !.title = books[book_id].title])

App_delete(ready) ==
    LET book_id == ready[1].v
    IN  IF book_id \notin DOMAIN books
        THEN Done(<<Msg("error", "Book with ID doesn't exist!", <<book_id>>)>>)
        ELSE Saving(Pop(books, book_id),
                    [NoCur EXCEPT !.op = "delete", !.id = book_id,
                                  !.title = books[book_id].title])

\* an operation of some other class: it returns, or it raises
Probe(ready) ==
    \/ Done(<<>>)
    \/ /\ Raise(<<>>, "body", "RuntimeError", "operation failed")
       /\ cur' = NoCur
       /\ UNCHANGED <<books, file>>

RunBody(b, ready) ==
    CASE b = "help" -> App_help(ready)
      [] b = "add" -> App_add(ready)
      [] b = "books" -> App_books(ready)
      [] b = "status" -> App_status(ready)
      [] b = "delete" -> App_delete(ready)
      [] OTHER -> Probe(ready)

\* Command.invoke of COMMANDS[i] on the tokens params
invoke(i, params) ==
    LET cmd == COMMANDS[i]
        o == Bind(cmd, params)
    IN  IF o.kind = "expected"
        THEN calls' = <<>> /\ Done(<<print_expected(o.param, o.type, o.given)>>)
        ELSE IF o.kind = "usage"
        THEN calls' = <<>> /\ Done(<<print_usage(cmd)>>)
        ELSE IF ~CallBinds(cmd, o.ready)
        THEN /\ calls' = <<>>
             /\ Raise(<<>>, "call", "TypeError", "missing required positional argument")
             /\ cur' = NoCur
             /\ UNCHANGED <<books, file>>
        ELSE /\ calls' = <<[cmd |-> i, args |-> o.ready]>>
             /\ RunBody(cmd.body, o.ready)

\* App.invoke_command
invoke_command(nm, params) ==
    LET i == FindCommand(COMMANDS, nm, 1)
    IN  /\ name' = nm
        /\ given' = params
        /\ sel' = i
        /\ UNCHANGED <<body, COMMANDS, booksBefore, fileBefore, prev>>
        /\ IF i = 0
           THEN calls' = <<>> /\ Done(<<Msg("error", "Unknown command", <<nm>>)>>)
           ELSE invoke(i, params)

Range(f) == {f[i] : i \in DOMAIN f}
AllNames(commands) == UNION {Range(invokable_names(commands[i])) : i \in DOMAIN commands}

\* the names the user types: every invokable name, and one that is none
TypedNames == AllNames(COMMANDS) \cup {"nope"}

IsAdd(nm) ==
    FindCommand(COMMANDS, nm, 1) # 0 /\ COMMANDS[FindCommand(COMMANDS, nm, 1)].body = "add"

\* the tokens the user types after the name nm
AppArgs(nm) == IF IsAdd(nm) THEN TitleArgs ELSE SeqsUpTo(AppTokens, MaxAppArgs)

\* App.tick: an empty line returns at once and the next tick begins
tick ==
    /\ pc = "prompt"
    /\ \/ UNCHANGED vars
       \/ \E nm \in TypedNames : \E params \in AppArgs(nm) : invoke_command(nm, params)

\* the Press Enter to continue of tick, and the start of the next tick
PressEnter ==
    /\ pc = "pause"
    /\ AtPrompt
    /\ prev' = IF cur.op = "status" /\ cur.ok THEN [id |-> cur.id, st |-> cur.st] ELSE NoPrev
    /\ UNCHANGED <<body, COMMANDS, books, file>>

Cancels == {<<"c">>, T_cancel}

\* the read of input_flow for the author
AddAuthor ==
    /\ pc = "author"
    /\ \E result \in AuthorInputs :
          IF result = <<>> THEN UNCHANGED vars
          ELSE IF result \in Cancels
          THEN /\ pc' = "pause"
               /\ UNCHANGED <<body, COMMANDS, books, file, out, calls, name, given, sel, cur, exc,
                              booksBefore, fileBefore, prev>>
          ELSE /\ pc' = "year"
               /\ cur' = [cur EXCEPT !.author = result]
               /\ out' = <<YearPrompt(cur.title, result)>>
               /\ UNCHANGED <<body, COMMANDS, books, file, calls, name, given, sel, exc,
                              booksBefore, fileBefore, prev>>

\* the read of input_flow for the year; a valid year makes the Book and
\* add_book puts it into self.books
AddYear ==
    /\ pc = "year"
    /\ \E result \in YearInputs :
          IF result = <<>> THEN UNCHANGED vars
          ELSE IF result \in Cancels
          THEN /\ pc' = "pause"
               /\ UNCHANGED <<body, COMMANDS, books, file, out, calls, name, given, sel, cur, exc,
                              booksBefore, fileBefore, prev>>
          ELSE IF ~check_year(result)
          THEN /\ pc' = "year_retry"
               /\ out' = Append(out, Msg("error", "Year must be an 1-4 digit number", <<result>>))
               /\ UNCHANGED <<body, COMMANDS, books, file, calls, name, given, sel, cur, exc,
                              booksBefore, fileBefore, prev>>
          ELSE \E id \in Ids :
               /\ pc' = "save_open"
               /\ books' = Put(books, id, Book(cur.title, cur.author, IntParse(result).v, id))
               /\ cur' = [cur EXCEPT !.year = result, !.id = id]
               /\ UNCHANGED <<body, COMMANDS, file, out, calls, name, given, sel, exc,
                              booksBefore, fileBefore, prev>>

\* Press Enter to continue of input_flow after a wrong year
YearRetry ==
    /\ pc = "year_retry"
    /\ pc' = "year"
    /\ out' = <<YearPrompt(cur.title, cur.author)>>
    /\ UNCHANGED <<body, COMMANDS, books, file, calls, name, given, sel, cur, exc,
                   booksBefore, fileBefore, prev>>

\* save_books: json.dumps, then open(self.file_path, 'w') truncates the file
SaveOpen ==
    /\ pc = "save_open"
    /\ pc' = "save_write"
    /\ file' = EmptyFile
    /\ UNCHANGED <<body, COMMANDS, books, out, calls, name, given, sel, cur, exc,
                   booksBefore, fileBefore, prev>>

\* what the operation reports after the save
Report(c) ==
    CASE c.op = "add" -> Msg("info", "added successfully", <<c.title, c.author, c.year>>)
      [] c.op = "status" ->
            Msg("info", "Status of the book has been set", <<c.title, c.id, str_status(books[c.id])>>)
      [] c.op = "delete" -> Msg("info", "deleted successfully", <<c.id, c.title>>)

\* save_books: f.write(dump) and the close of the with block; the operation
\* then reports and returns
SaveWrite ==
    /\ pc = "save_write"
    /\ pc' = "pause"
    /\ file' = Dump(books)
    /\ out' = Append(out, Report(cur))
    /\ cur' = [cur EXCEPT !.ok = TRUE]
    /\ UNCHANGED <<body, COMMANDS, books, calls, name, given, sel, exc, booksBefore, fileBefore,
                   prev>>

\* a caller hands a name and tokens to invoke_command
dispatch ==
    /\ pc = "prompt"
    /\ \E nm \in TypedNames : \E params \in SeqsUpTo(LibTokens, MaxArgs) :
          invoke_command(nm, params)

Next ==
    \/ Register
    \/ tick
    \/ PressEnter
    \/ AddAuthor
    \/ AddYear
    \/ YearRetry
    \/ SaveOpen
    \/ SaveWrite
    \/ Interrupt
    \/ EndOfInput

Spec == Init /\ [][Next]_vars

\* the command framework under classes other than App
InitLib == InitWith(LibBodies, {NoFile})
NextLib == Register \/ dispatch \/ PressEnter
SpecLib == InitLib /\ [][NextLib]_vars

(***************************************************************************)
(* Properties.                                                              *)
(***************************************************************************)
Min(S) == CHOOSE x \in S : \A y \in S : x <= y

\* a class was built and the process runs (or ran)
Built == pc \notin {"define", "aborted"}

\* a dispatch took place and selected a command
Selected == Built /\ sel # 0

ErrorsOf(msgs) == {i \in DOMAIN msgs : msgs[i].ch = "error"}
HasUsage(msgs) == \E i \in DOMAIN msgs : msgs[i].kind = "Usage"

\* the parameters of cmd that are neither optional nor variadic
RequiredParams(cmd) ==
    {i \in DOMAIN cmd.parameters :
        /\ cmd.parameters[i].annotation \notin OPTIONALS
        /\ cmd.parameters[i].kind # "VAR_POSITIONAL"}

\* C1: the required-argument count invoke compares against is the number of
\* parameters that are neither optional nor variadic; a command invoked with no
\* token and with no such parameter prints no usage line and calls its operation.
C1_RequiredCountExcludesVariadic ==
    Selected =>
       /\ get_required_count(COMMANDS[sel]) = Cardinality(RequiredParams(COMMANDS[sel]))
       /\ (given = <<>> /\ RequiredParams(COMMANDS[sel]) = {}) =>
             (~HasUsage(out) /\ calls # <<>>)

\* C2: when an interrupt ends the process during add, status or delete, the data
\* file holds the complete collection of before the call or that of after it.
C2_InterruptKeepsFileComplete ==
    (pc = "closed" /\ cur.op \in {"add", "status", "delete"}) =>
        file \in {fileBefore, Dump(books)}

\* C3: an error raised by the body of an operation (or by calling it) is handled
\* by Command.invoke: its text is the last message, on the error channel, the
\* process waits at Press Enter of the same tick, and no such error ends the process.
C3_BodyErrorsAreCaught ==
    /\ (exc.site \in {"body", "call"} /\ exc.cls \notin {"none", "KeyboardInterrupt"}) =>
          /\ exc.by = "invoke"
          /\ pc = "pause"
          /\ out # <<>>
          /\ out[Len(out)] = Msg("error", "exception", exc.msg)
    /\ pc = "crashed" => exc.site = "tick"

C3_Witness ==
    /\ pc = "pause"
    /\ exc.cls = "EOFError"
    /\ exc.site = "body"
    /\ cur.op = "add"

\* the positions of the tokens matched to an int or float parameter that do not
\* parse as that type
Unparsed(cmd, tokens) ==
    {i \in DOMAIN tokens :
        /\ i <= Len(cmd.parameters)
        /\ cmd.parameters[i].kind # "VAR_POSITIONAL"
        /\ \/ TypeOf(cmd.parameters[i]) = "int" /\ ~IntParse(tokens[i]).ok
           \/ TypeOf(cmd.parameters[i]) = "float" /\ ~FloatParse(tokens[i]).ok}

\* C4: when a token matched to an int or float parameter does not parse, the only
\* message is Expected "<param>" argument to be <Type>, got "<raw>" for the first
\* such token, no operation is called, and the bookshelf and the file are unchanged.
C4_TypeErrorReported ==
    (Selected /\ Unparsed(COMMANDS[sel], given) # {}) =>
        LET i == Min(Unparsed(COMMANDS[sel], given))
            p == COMMANDS[sel].parameters[i]
        IN  /\ out = <<Msg("error", "Expected", <<p.name, TypeOf(p), given[i]>>)>>
            /\ calls = <<>>
            /\ books = booksBefore
            /\ file = fileBefore
            /\ pc = "pause"

C4_Witness ==
    /\ Selected
    /\ pc = "pause"
    /\ 2 \in Unparsed(COMMANDS[sel], given)
    /\ 1 \notin Unparsed(COMMANDS[sel], given)
    /\ TypeOf(COMMANDS[sel].parameters[2]) = "float"

\* cmd ends with a variadic parameter
Variadic(cmd) ==
    /\ cmd.parameters # <<>>
    /\ cmd.parameters[Len(cmd.parameters)].kind = "VAR_POSITIONAL"

\* C5: for a command with k parameters before a last variadic one, given m > k
\* tokens of which the first k convert, the operation is called with the first k
\* tokens converted to the declared types followed by tokens k+1..m as strings,
\* in the order given.
C5_VariadicTakesExcess ==
    (Selected /\ Variadic(COMMANDS[sel]) /\ Len(given) >= Len(COMMANDS[sel].parameters)) =>
        LET cmd == COMMANDS[sel]
            k == Len(cmd.parameters) - 1
            converts == \A j \in 1..k : Coerce(TypeOf(cmd.parameters[j]), given[j]).ok
        IN  /\ converts <=> calls # <<>>
            /\ calls # <<>> =>
                  /\ Len(calls) = 1
                  /\ calls[1].cmd = sel
                  /\ Len(calls[1].args) = Len(given)
                  /\ \A j \in 1..k :
                        calls[1].args[j] = Coerce(TypeOf(cmd.parameters[j]), given[j]).val
                  /\ \A j \in (k + 1)..Len(given) :
                        calls[1].args[j] = [t |-> "str", v |-> given[j]]

C5_Witness ==
    /\ Selected
    /\ Variadic(COMMANDS[sel])
    /\ Len(COMMANDS[sel].parameters) = 2
    /\ TypeOf(COMMANDS[sel].parameters[1]) = "int"
    /\ Len(given) = 3
    /\ given[2] # given[3]
    /\ IntParse(given[2]).ok
    /\ calls # <<>>

\* the primary name of cmd together with its aliases
NameSet(cmd) == {cmd.name} \cup Range(cmd.aliases)

\* the commands that nm invokes
Matching(nm) == {i \in DOMAIN COMMANDS : nm \in NameSet(COMMANDS[i])}

\* C6: a dispatch selects the first command, in registry order, whose primary
\* name or aliases contain the name, for every name, and calls no operation of
\* another command.
C6_FirstMatchIsInvoked ==
    (Built /\ name # "") =>
        /\ sel = IF Matching(name) = {} THEN 0 ELSE Min(Matching(name))
        /\ Len(calls) <= 1
        /\ \A c \in DOMAIN calls : calls[c].cmd = sel

C6_Witness ==
    /\ Built
    /\ name # ""
    /\ Cardinality(Matching(name)) = 3
    /\ sel = 1
    /\ calls # <<>>
    /\ name \in Range(COMMANDS[1].aliases)

\* C7: the dispatch of a name that invokes no command writes the single message
\* Unknown command: "<name>", calls no operation, raises nothing and leaves the
\* bookshelf and the data file as they were, whatever the tokens are.
C7_UnknownCommand ==
    (Built /\ name # "" /\ Matching(name) = {}) =>
        /\ out # <<>>
        /\ out[1] = Msg("error", "Unknown command", <<name>>)
        /\ ErrorsOf(out) = {1}
        /\ calls = <<>>
        /\ books = booksBefore
        /\ file = fileBefore
        /\ pc = "pause" => exc = NoExc
        /\ exc.site \in {"none", "tick"}

C7_Witness ==
    /\ pc = "pause"
    /\ name = "nope"
    /\ Len(given) = 2
    /\ DOMAIN books = {ID1, ID2}

\* the book that add makes of what the user entered
Entered(id) ==
    [title |-> Join(given), author |-> cur.author, year |-> IntParse(cur.year).v,
     status |-> "in_stock", id |-> id]

\* C8: when add completes, the bookshelf holds under the id assigned by the call
\* the entered title, author and year with status in_stock, and the file holds the
\* bookshelf; the listing shows every book of the bookshelf with its fields and
\* status; when delete of an id completes, the id is in neither the bookshelf nor
\* the file and every other entry of both is as before.
C8_AddListDelete ==
    /\ (pc = "pause" /\ cur.op = "add" /\ cur.ok) =>
          /\ cur.id \in DOMAIN books
          /\ books[cur.id] = Entered(cur.id)
          /\ cur.year = T_1965 => books[cur.id].year = 1965
          /\ cur.author # <<>> /\ check_year(cur.year)
          /\ file = Dump(books)
          /\ \A j \in DOMAIN booksBefore \ {cur.id} : j \in DOMAIN books /\ books[j] = booksBefore[j]
    /\ (pc = "pause" /\ Selected /\ calls # <<>> /\ COMMANDS[sel].body = "books") =>
          /\ Len(out) = 2
          /\ out[2].text =
                {<<books[j].title, books[j].author, books[j].year, j,
                   IF books[j].status = "in_stock" THEN "In stock" ELSE "Handed over">> :
                    j \in DOMAIN books}
    /\ (pc = "pause" /\ cur.op = "delete" /\ cur.ok) =>
          /\ cur.id = given[1]
          /\ cur.id \notin DOMAIN books
          /\ file.kind = "json"
          /\ cur.id \notin DOMAIN file.data
          /\ DOMAIN books = DOMAIN booksBefore \ {cur.id}
          /\ DOMAIN file.data = DOMAIN books
          /\ \A j \in DOMAIN books :
                books[j] = booksBefore[j] /\ file.data[j] = fileBefore.data[j]

C8_Witness ==
    /\ pc = "pause"
    /\ cur.op = "delete"
    /\ cur.ok
    /\ cur.id \in DOMAIN booksBefore
    /\ booksBefore[cur.id].title = Join(<<T_Dune, T_out>>)
    /\ booksBefore[cur.id].year = 1965
    /\ DOMAIN books # {}

StatusOf(st) == IF st = T_stock THEN "in_stock" ELSE "handed_over"

\* C9: a completed status command leaves the book with the status asked for; the
\* same status command given again right after it completes too, writes no error
\* and leaves the bookshelf and the file exactly as the first left them.
C9_StatusIdempotent ==
    /\ (pc = "pause" /\ cur.op = "status" /\ cur.ok) =>
          /\ cur.id \in DOMAIN books
          /\ books[cur.id].status = StatusOf(cur.st)
    /\ (pc = "pause" /\ Selected /\ COMMANDS[sel].body = "status" /\ prev # NoPrev
            /\ Len(given) >= 2 /\ given[1] = prev.id /\ given[2] = prev.st) =>
          /\ cur.op = "status" /\ cur.ok
          /\ ErrorsOf(out) = {}
          /\ books = booksBefore
          /\ file = fileBefore
          /\ books[prev.id].status = StatusOf(prev.st)

C9_Witness ==
    /\ pc = "pause"
    /\ cur.op = "status"
    /\ cur.ok
    /\ prev = [id |-> cur.id, st |-> cur.st]
    /\ cur.st = T_out
    /\ DOMAIN books = {ID1, ID2}

\* a parameter that the framework does not accept
BadParam(p) ==
    \/ p.kind \in {"KEYWORD_ONLY", "VAR_KEYWORD"}
    \/ /\ p.kind # "VAR_POSITIONAL"
       /\ p.name # "self"
       /\ p.annotation \notin
             {"str", "int", "float", "bool",
              "Optional[str]", "Optional[int]", "Optional[float]", "Optional[bool]"}

\* the commands of the class body with a parameter that is not accepted
Malformed == {i \in DOMAIN body : body[i].deco /\ \E j \in DOMAIN body[i].params : BadParam(body[i].params[j])}

\* C10: once the class body has been executed, a body with a command that has a
\* keyword-only or catch-all-keyword parameter, or a non-variadic parameter other
\* than self whose type is none of the eight accepted, has raised TypeError and no
\* COMMANDS list exists; no class is built from such a body.
C10_RegistrationFailsFast ==
    (pc # "define" /\ Malformed # {}) =>
        /\ pc = "aborted"
        /\ exc.cls = "TypeError"
        /\ COMMANDS = <<>>

C10_Witness ==
    /\ pc = "aborted"
    /\ Malformed = {2}
    /\ body[2].params[2].kind = "POSITIONAL_OR_KEYWORD"
    /\ body[2].params[2].annotation = "str"
    /\ body[2].params[3].kind = "KEYWORD_ONLY"

\* the messages of msgs that invoke writes about the arguments
ArgumentErrors(msgs) == {i \in DOMAIN msgs : msgs[i].kind \in {"Usage", "Expected"}}

\* C11: for a command with n parameters, none variadic, given more than n tokens
\* of which the first n convert, the operation is called once with exactly the
\* first n tokens converted, as it is for those n tokens alone, and no usage or
\* Expected message is written; when one of the first n does not convert, the
\* Expected message is about that token, never about an excess one; a command
\* without parameters is called with no argument whatever the tokens are.
C11_ExcessTokensDropped ==
    (Selected /\ ~Variadic(COMMANDS[sel]) /\ Len(given) > Len(COMMANDS[sel].parameters)) =>
        LET cmd == COMMANDS[sel]
            n == Len(cmd.parameters)
        IN  IF Unparsed(cmd, given) = {}
            THEN /\ Len(calls) = 1
                 /\ calls[1].cmd = sel
                 /\ Len(calls[1].args) = n
                 /\ \A j \in 1..n :
                       calls[1].args[j] = Coerce(TypeOf(cmd.parameters[j]), given[j]).val
                 /\ calls[1].args = Bind(cmd, SubSeq(given, 1, n)).ready
                 /\ ArgumentErrors(out) = {}
            ELSE /\ calls = <<>>
                 /\ out = <<print_expected(cmd.parameters[Min(Unparsed(cmd, given))].name,
                                           TypeOf(cmd.parameters[Min(Unparsed(cmd, given))]),
                                           given[Min(Unparsed(cmd, given))])>>
                 /\ Min(Unparsed(cmd, given)) <= n

C11_Witness ==
    /\ Selected
    /\ pc = "pause"
    /\ Len(COMMANDS[sel].parameters) = 1
    /\ COMMANDS[sel].parameters[1].kind = "POSITIONAL_OR_KEYWORD"
    /\ TypeOf(COMMANDS[sel].parameters[1]) = "int"
    /\ Len(given) = 3
    /\ IntParse(given[1]).ok
    /\ ~IntParse(given[2]).ok
    /\ ~FloatParse(given[3]).ok
    /\ Len(calls) = 1
    /\ Len(calls[1].args) = 1

\* C12: when a command has completed, every book that was in the data file
\* before it is still in the file, unless the command is the delete of that book;
\* so the books written by an earlier session stay in the file.
C12_PersistedBooksSurvive ==
    (pc = "pause" /\ fileBefore.kind = "json") =>
        \A id \in DOMAIN fileBefore.data :
            \/ cur.op = "delete" /\ cur.ok /\ cur.id = id
            \/ file.kind = "json" /\ id \in DOMAIN file.data

====
